---- MODULE Spec2Model ----
(***************************************************************************)
(* Rate limiter of fc-tec-ch-02: the fixed-window limiter                  *)
(* (internal/limiter/limiter.go), the limiting service that dispatches     *)
(* between address and credential limiting (internal/limiter/service.go)   *)
(* the in-memory store of the service tests, the Redis store               *)
(* (internal/storage/redis.go), the HTTP middleware                        *)
(* (internal/middleware/middleware.go) and the configuration               *)
(* (internal/config/config.go).                                            *)
(*                                                                         *)
(* Time is a discrete clock `now`; the Go zero time.Time{} is ZeroTime,    *)
(* which lies before every clock value.  A CheckAndIncrement call is a     *)
(* sequence of steps, one per store call (the only suspension points):     *)
(*   Call       entry, CheckToken/CheckIP up to and including storage.Get  *)
(*              and the evaluation of its result,                          *)
(*   ClearStep  storage.Clear of an expired record and Check's return,     *)
(*   IncrementStep  IncrementToken/IncrementIP and the final return.       *)
(* Every store call may fail with a store error.                           *)
(***************************************************************************)
EXTENDS Integers, Sequences, FiniteSets, TLC

\* ---------------------------------------------------------------- bounds
MaxN == 2          \* maxRequests of a policy ranges over 1..MaxN
MaxTTL == 2        \* window of a policy ranges over 1..MaxTTL clock ticks
MaxCalls == 3      \* CheckAndIncrement calls in one behaviour
MaxFaults == 1     \* store calls that fail in one behaviour
MaxProcs == 2      \* workers that serve requests concurrently
TicksPerSecond == 2  \* clock ticks in one second (time.Time is finer than a second)


ZeroTime == 0      \* time.Time{}

Ids == {"x", "y"}              \* literal identifier values (address or credential)
NoToken == ""

\* The (address, credential) arguments of the calls: one address, without a
\* credential and with each credential (one equal to the address, one not).
Requests == {<<"x", NoToken>>, <<"x", "x">>, <<"x", "y">>}

ErrNil == "nil"
ErrLimitExceeded == "rate limit exceeded"
ErrStore == "store error"

VARIABLES
  cfg,        \* config.Config of the service (read-only after construction)
  store,      \* the storage.Storage implementation behind the service: "mock" or "redis"
  now,        \* the clock
  data,       \* the store: mockStorage.data (key -> RateLimitInfo, NilInfo for a key
              \* not in the map), or the Redis database (key -> entry)
  active,     \* the workers that serve requests
  pc,         \* per worker: "idle", "clear", "incr", "done"
  reqIP, reqToken,      \* per worker: the arguments of CheckAndIncrement
  info,       \* per worker: what storage.Get returned to Check
  allowed, resetTime, err,   \* per worker: Check's result, then the call's result
  ops,        \* per worker: the store calls issued by the current call, in order
  obs,        \* per worker: measurements of the current call (see NoObs)
  run,        \* per key: position of the last call in a sequential run on the key
  calls,      \* the number of calls made so far
  faults,     \* the number of store calls that failed so far
  admits,     \* the clocks at which the store admitted a call, in order (in
              \* ConcSpec: since the clock last moved)
  resp        \* per worker: the HTTP response of the middleware (see NoResp)

vars == <<cfg, store, now, data, active, pc, reqIP, reqToken, info, allowed, resetTime,
          err, ops, obs, run, calls, faults, admits, resp>>

\* What the limiting service and its store do not touch.
outside == <<admits, resp>>

\* ------------------------------------------------------- storage.RateLimitInfo
NilInfo == [nil |-> TRUE, Count |-> 0, ResetTime |-> ZeroTime]
RateLimitInfo(count, reset) == [nil |-> FALSE, Count |-> count, ResetTime |-> reset]

\* Mutant of After: a time is also after itself.
After_OrEqual(t, u) == t >= u
\* time.Time.After
After(t, u) == t > u

\* ------------------------------------------------------------ mockStorage
\* Each operation returns the new map together with the values it returns.
Put(d, key, rec) == [d EXCEPT ![key] = rec]

mockGet(d, key) ==
  IF ~d[key].nil
    THEN RateLimitInfo(d[key].Count, d[key].ResetTime)
    ELSE NilInfo

\* Mutant of mockIncrement: the record is rewritten without the expiry test.
mockIncrement_Restarts(d, key, ttl, t) ==
  [data |-> Put(d, key, RateLimitInfo(1, t + ttl)), count |-> 1, resetTime |-> t + ttl]

mockIncrement(d, key, ttl, t) ==
  IF ~d[key].nil
    THEN IF After(t, d[key].ResetTime)
           THEN [data |-> Put(d, key, RateLimitInfo(1, t + ttl)),
                 count |-> 1, resetTime |-> t + ttl]
           ELSE [data |-> Put(d, key, RateLimitInfo(d[key].Count + 1, d[key].ResetTime)),
                 count |-> d[key].Count + 1, resetTime |-> d[key].ResetTime]
    ELSE [data |-> Put(d, key, RateLimitInfo(1, t + ttl)),
          count |-> 1, resetTime |-> t + ttl]

mockClear(d, key) == Put(d, key, NilInfo)

\* ----------------------------------------------------------- RedisStorage
\* The database maps a key to an entry: a string value, which is either an
\* integer (the counter, kind "int", n) or the JSON of a RateLimitInfo (kind
\* "json", info), with the time at which Redis drops it.
NoEntry == [nil |-> TRUE, kind |-> "int", n |-> 0, info |-> NilInfo, exp |-> ZeroTime]
IntEntry(n, exp) == [nil |-> FALSE, kind |-> "int", n |-> n, info |-> NilInfo, exp |-> exp]
JsonEntry(i, exp) == [nil |-> FALSE, kind |-> "json", n |-> 0, info |-> i, exp |-> exp]

\* fmt.Sprintf("%s:info", key)
InfoKey(key) == key \o ":info"

\* Redis holds an entry until its time to live has run out.
Alive(e, t) == ~e.nil /\ t < e.exp

\* json.Unmarshal of the entry at the info key into a RateLimitInfo succeeded.
HasInfo(d, key, t) == Alive(d[InfoKey(key)], t) /\ d[InfoKey(key)].kind = "json"

\* Mutant of RedisGet: the stored reset time is not looked up.
RedisGet_NoInfo(d, key, t) ==
  IF ~Alive(d[key], t)
    THEN NilInfo
    ELSE RateLimitInfo(IF d[key].kind = "int" THEN d[key].n ELSE 0, t)

RedisGet(d, key, t) ==
  IF ~Alive(d[key], t)
    THEN NilInfo
    ELSE RateLimitInfo(IF d[key].kind = "int" THEN d[key].n ELSE 0,
                       IF HasInfo(d, key, t) THEN d[InfoKey(key)].info.ResetTime ELSE t)

\* Mutant of RedisIncrement: the reset time is recomputed by every increment.
RedisIncrement_Sliding(d, key, ttl, t) ==
  LET count == IF Alive(d[key], t) THEN d[key].n + 1 ELSE 1
      d1 == Put(d, key, IntEntry(count, t + ttl))
  IN [data |-> Put(d1, InfoKey(key), JsonEntry(RateLimitInfo(count, t + ttl), t + ttl)),
      count |-> count, resetTime |-> t + ttl, err |-> ErrNil]

\* INCR and EXPIRE in one pipeline, then GET and SET of the info key.
RedisIncrement(d, key, ttl, t) ==
  IF Alive(d[key], t) /\ d[key].kind # "int"
    THEN [data |-> Put(d, key, [d[key] EXCEPT !.exp = t + ttl]),
          count |-> 0, resetTime |-> ZeroTime, err |-> ErrStore]
    ELSE LET count == IF Alive(d[key], t) THEN d[key].n + 1 ELSE 1
             d1 == Put(d, key, IntEntry(count, t + ttl))
             reset == IF HasInfo(d1, key, t) THEN d1[InfoKey(key)].info.ResetTime ELSE t + ttl
         IN [data |-> Put(d1, InfoKey(key), JsonEntry(RateLimitInfo(count, reset), t + ttl)),
             count |-> count, resetTime |-> reset, err |-> ErrNil]

RedisClear(d, key) == Put(Put(d, key, NoEntry), InfoKey(key), NoEntry)

\* ------------------------------------------------------- storage.Storage
\* The calls of the service on the implementation it was built with.
StorageGet(d, key, t) ==
  IF store = "mock" THEN mockGet(d, key) ELSE RedisGet(d, key, t)

StorageIncrement(d, key, ttl, t) ==
  IF store = "mock"
    THEN LET m == mockIncrement(d, key, ttl, t)
         IN [data |-> m.data, count |-> m.count, resetTime |-> m.resetTime, err |-> ErrNil]
    ELSE RedisIncrement(d, key, ttl, t)

StorageClear(d, key) ==
  IF store = "mock" THEN mockClear(d, key) ELSE RedisClear(d, key)

\* ------------------------------------------------------------ RateLimiter
NewRateLimiter(maxRequests, blockTime) == [maxReqs |-> maxRequests, blockTime |-> blockTime]

\* Mutant of Check: the limit test is off by one (> for >=).
Check_OffByOne(rl, i, getErr, t) ==
  IF getErr # ErrNil
    THEN [next |-> "return", allowed |-> FALSE, resetTime |-> ZeroTime, err |-> getErr]
  ELSE IF i.nil
    THEN [next |-> "return", allowed |-> TRUE, resetTime |-> t + rl.blockTime, err |-> ErrNil]
  ELSE IF After(t, i.ResetTime)
    THEN [next |-> "clear", allowed |-> FALSE, resetTime |-> ZeroTime, err |-> ErrNil]
  ELSE IF i.Count > rl.maxReqs
    THEN [next |-> "return", allowed |-> FALSE, resetTime |-> i.ResetTime, err |-> ErrLimitExceeded]
  ELSE [next |-> "return", allowed |-> TRUE, resetTime |-> i.ResetTime, err |-> ErrNil]

\* Mutant of Check: the limit is tested before the expiry of the record.
Check_LimitBeforeExpiry(rl, i, getErr, t) ==
  IF getErr # ErrNil
    THEN [next |-> "return", allowed |-> FALSE, resetTime |-> ZeroTime, err |-> getErr]
  ELSE IF i.nil
    THEN [next |-> "return", allowed |-> TRUE, resetTime |-> t + rl.blockTime, err |-> ErrNil]
  ELSE IF i.Count >= rl.maxReqs
    THEN [next |-> "return", allowed |-> FALSE, resetTime |-> i.ResetTime, err |-> ErrLimitExceeded]
  ELSE IF After(t, i.ResetTime)
    THEN [next |-> "clear", allowed |-> FALSE, resetTime |-> ZeroTime, err |-> ErrNil]
  ELSE [next |-> "return", allowed |-> TRUE, resetTime |-> i.ResetTime, err |-> ErrNil]

\* Mutant of Check: a denial returns a freshly computed reset time.
Check_DeniedFreshReset(rl, i, getErr, t) ==
  IF getErr # ErrNil
    THEN [next |-> "return", allowed |-> FALSE, resetTime |-> ZeroTime, err |-> getErr]
  ELSE IF i.nil
    THEN [next |-> "return", allowed |-> TRUE, resetTime |-> t + rl.blockTime, err |-> ErrNil]
  ELSE IF After(t, i.ResetTime)
    THEN [next |-> "clear", allowed |-> FALSE, resetTime |-> ZeroTime, err |-> ErrNil]
  ELSE IF i.Count >= rl.maxReqs
    THEN [next |-> "return", allowed |-> FALSE, resetTime |-> t + rl.blockTime, err |-> ErrLimitExceeded]
  ELSE [next |-> "return", allowed |-> TRUE, resetTime |-> i.ResetTime, err |-> ErrNil]

\* Mutant of Check: a request admitted on a live record is given a freshly
\* computed reset time.
Check_LiveFreshReset(rl, i, getErr, t) ==
  IF getErr # ErrNil
    THEN [next |-> "return", allowed |-> FALSE, resetTime |-> ZeroTime, err |-> getErr]
  ELSE IF i.nil
    THEN [next |-> "return", allowed |-> TRUE, resetTime |-> t + rl.blockTime, err |-> ErrNil]
  ELSE IF After(t, i.ResetTime)
    THEN [next |-> "clear", allowed |-> FALSE, resetTime |-> ZeroTime, err |-> ErrNil]
  ELSE IF i.Count >= rl.maxReqs
    THEN [next |-> "return", allowed |-> FALSE, resetTime |-> i.ResetTime, err |-> ErrLimitExceeded]
  ELSE [next |-> "return", allowed |-> TRUE, resetTime |-> t + rl.blockTime, err |-> ErrNil]

\* RateLimiter.Check after storage.Get returned (i, getErr), at clock t.
\* next = "clear" means Check goes on to storage.Clear before it returns.
Check(rl, i, getErr, t) ==
  IF getErr # ErrNil
    THEN [next |-> "return", allowed |-> FALSE, resetTime |-> ZeroTime, err |-> getErr]
  ELSE IF i.nil
    THEN [next |-> "return", allowed |-> TRUE, resetTime |-> t + rl.blockTime, err |-> ErrNil]
  ELSE IF After(t, i.ResetTime)
    THEN [next |-> "clear", allowed |-> FALSE, resetTime |-> ZeroTime, err |-> ErrNil]
  ELSE IF i.Count >= rl.maxReqs
    THEN [next |-> "return", allowed |-> FALSE, resetTime |-> i.ResetTime, err |-> ErrLimitExceeded]
  ELSE [next |-> "return", allowed |-> TRUE, resetTime |-> i.ResetTime, err |-> ErrNil]

\* Mutant of CheckCleared: the error of storage.Clear is ignored.
CheckCleared_IgnoreErr(rl, clearErr, t) ==
  [allowed |-> TRUE, resetTime |-> t + rl.blockTime, err |-> ErrNil]

\* RateLimiter.Check after storage.Clear returned clearErr, at clock t.
CheckCleared(rl, clearErr, t) ==
  IF clearErr # ErrNil
    THEN [allowed |-> FALSE, resetTime |-> ZeroTime, err |-> clearErr]
    ELSE [allowed |-> TRUE, resetTime |-> t + rl.blockTime, err |-> ErrNil]

\* Mutant of Increment: a record that has reached the limit is not incremented.
Increment_Capped(rl, d, key, t) ==
  LET cur == StorageGet(d, key, t)
  IN IF ~cur.nil /\ ~After(t, cur.ResetTime) /\ cur.Count >= rl.maxReqs
       THEN [data |-> d, count |-> cur.Count, resetTime |-> cur.ResetTime,
             err |-> ErrLimitExceeded]
       ELSE StorageIncrement(d, key, rl.blockTime, t)

\* RateLimiter.Increment on the store d at clock t.
Increment(rl, d, key, t) == StorageIncrement(d, key, rl.blockTime, t)

\* ---------------------------------------------------------------- Service
\* Mutant of KeyIP: every address is counted under the key of the address "x".
KeyIP_OneKey(ip) == "ip:x"
\* Mutant of KeyIP: the address key carries the credential prefix.
KeyIP_TokenPrefix(ip) == "token:" \o ip
KeyIP(ip) == "ip:" \o ip
\* Mutant of KeyToken: the credential key carries the address prefix.
KeyToken_IPPrefix(token) == "ip:" \o token
KeyToken(token) == "token:" \o token
Keys == {KeyIP(i) : i \in Ids} \cup {KeyToken(t) : t \in Ids}
\* The keys of the Redis database: the counter keys and their info keys.
RKeys == Keys \cup {InfoKey(k) : k \in Keys}

\* NewService: the one limiter built from the default policy.
ipLimiter == NewRateLimiter(cfg.MaxRequestsPerSecond, cfg.BlockingTime)

\* Mutant of IPEnabled: the address class is limited whatever the flag says.
IPEnabled_Always == TRUE
IPEnabled == cfg.EnableIPRateLimiter
TokenEnabled == cfg.EnableTokenRateLimiter

\* Mutant of CheckTokenLimiter: a credential without an entry of its own is
\* checked under the entry of another credential.
CheckTokenLimiter_AnyOverride(token) ==
  IF DOMAIN cfg.TokenLimits # {}
    THEN LET c == CHOOSE c \in DOMAIN cfg.TokenLimits : TRUE
         IN NewRateLimiter(cfg.TokenLimits[c].MaxRequests, cfg.TokenLimits[c].TTL)
    ELSE ipLimiter

\* The limiter CheckToken uses for a token.
CheckTokenLimiter(token) ==
  IF token \in DOMAIN cfg.TokenLimits
    THEN NewRateLimiter(cfg.TokenLimits[token].MaxRequests, cfg.TokenLimits[token].TTL)
    ELSE ipLimiter

\* Mutant of IncrementTokenLimiter: the override is not looked up.
IncrementTokenLimiter_Default(token) == ipLimiter

\* The limiter IncrementToken uses for a token.
IncrementTokenLimiter(token) ==
  IF token \in DOMAIN cfg.TokenLimits
    THEN NewRateLimiter(cfg.TokenLimits[token].MaxRequests, cfg.TokenLimits[token].TTL)
    ELSE ipLimiter

\* What CheckIP and CheckToken return when their class is disabled.
CheckDisabled == [allowed |-> TRUE, resetTime |-> ZeroTime, err |-> ErrNil]

\* CheckAndIncrement: the branch taken for the arguments.
UsesToken(token) == token # NoToken

\* Mutant of CheckTarget: the credential is checked against the address key.
CheckTarget_AddressKey(ip, token) ==
  IF UsesToken(token)
    THEN [enabled |-> TokenEnabled, rl |-> CheckTokenLimiter(token), key |-> KeyIP(ip)]
    ELSE [enabled |-> IPEnabled, rl |-> ipLimiter, key |-> KeyIP(ip)]

\* The check of a call: whether it reaches the store, and with which limiter and key.
CheckTarget(ip, token) ==
  IF UsesToken(token)
    THEN [enabled |-> TokenEnabled, rl |-> CheckTokenLimiter(token), key |-> KeyToken(token)]
    ELSE [enabled |-> IPEnabled, rl |-> ipLimiter, key |-> KeyIP(ip)]

\* Mutant of IncrementTarget: the address counter is incremented in both branches.
IncrementTarget_AddressKey(ip, token) ==
  IF UsesToken(token)
    THEN [enabled |-> TokenEnabled, rl |-> IncrementTokenLimiter(token), key |-> KeyIP(ip)]
    ELSE [enabled |-> IPEnabled, rl |-> ipLimiter, key |-> KeyIP(ip)]

\* The increment of a call, likewise.
IncrementTarget(ip, token) ==
  IF UsesToken(token)
    THEN [enabled |-> TokenEnabled, rl |-> IncrementTokenLimiter(token), key |-> KeyToken(token)]
    ELSE [enabled |-> IPEnabled, rl |-> ipLimiter, key |-> KeyIP(ip)]

\* Mutant of GoesOnToIncrement: the counter is incremented for denied calls too.
GoesOnToIncrement_Always(isAllowed) == TRUE
\* CheckAndIncrement after CheckToken/CheckIP returned: increment only if allowed.
GoesOnToIncrement(isAllowed) == isAllowed

\* Mutant of ResultAfterIncrement: the error of the increment is returned.
ResultAfterIncrement_Propagate(checkReset, incErr) ==
  IF incErr # ErrNil
    THEN [allowed |-> FALSE, resetTime |-> ZeroTime, err |-> incErr]
    ELSE [allowed |-> TRUE, resetTime |-> checkReset, err |-> ErrNil]

\* Mutant of ResultAfterIncrement: admitted, with the error of the increment.
ResultAfterIncrement_WithErr(checkReset, incErr) ==
  [allowed |-> TRUE, resetTime |-> checkReset, err |-> incErr]

\* CheckAndIncrement's return value after the increment returned incErr.
ResultAfterIncrement(checkReset, incErr) ==
  [allowed |-> TRUE, resetTime |-> checkReset, err |-> ErrNil]

\* ------------------------------------------------------------ measurements
\* obs[w] records, for the current call of worker w: the clock at the Get,
\* whether a store call failed, the reset time Check returned, and what the
\* Increment returned and when.
NoObs == [getAt |-> ZeroTime, fault |-> FALSE, checkReset |-> ZeroTime,
          incAt |-> ZeroTime, incCount |-> 0, incReset |-> ZeroTime]

NoRun == [n |-> 0, first |-> ZeroTime, valid |-> FALSE]
RunCap == MaxN + 2

\* run[k] after a call on key k completed at clock t.  A run starts with a call
\* that found no live record (fresh: absent, or expired and cleared) and whose
\* Increment persisted the reset time `first`; it goes on while every call is
\* free of store faults and completes no later than `first`.  n is the position of the
\* last completed call in the run.
RunAfter(r, fresh, incremented, o, t) ==
  IF fresh
    THEN IF ~o.fault /\ incremented
           THEN [n |-> 1, first |-> o.incReset, valid |-> TRUE]
           ELSE NoRun
    ELSE IF r.valid /\ ~o.fault /\ t <= r.first /\ r.n < RunCap
           THEN [r EXCEPT !.n = r.n + 1]
           ELSE NoRun

Fresh(i, t) == i.nil \/ After(t, i.ResetTime)

\* ------------------------------------------------------------------ Init
Policies == [MaxRequests : 1..MaxN, TTL : 1..MaxTTL]
TokenLimitsChoices ==
  {[t \in {} |-> [MaxRequests |-> 1, TTL |-> 1]]} \cup {[t \in {"x"} |-> p] : p \in Policies}

Configs ==
  [MaxRequestsPerSecond : 1..MaxN, BlockingTime : 1..MaxTTL,
   TokenLimits : TokenLimitsChoices,
   EnableIPRateLimiter : BOOLEAN, EnableTokenRateLimiter : BOOLEAN]

\* newMockStorage, and a Redis database without keys.
EmptyStore ==
  IF store = "mock" THEN [k \in Keys |-> NilInfo] ELSE [k \in RKeys |-> NoEntry]

\* The X-RateLimit-Reset header: absent, or a time in whole seconds.
NoHeader == [set |-> FALSE, seconds |-> 0]
\* The response before the middleware has written it: status, the number of
\* times the next handler was invoked, and the header.
NoResp == [status |-> 0, served |-> 0, reset |-> NoHeader]

\* No call has been made.
InitCalls ==
  /\ pc = [w \in active |-> "idle"]
  /\ reqIP = [w \in active |-> "x"]
  /\ reqToken = [w \in active |-> NoToken]
  /\ info = [w \in active |-> NilInfo]
  /\ allowed = [w \in active |-> FALSE]
  /\ resetTime = [w \in active |-> ZeroTime]
  /\ err = [w \in active |-> ErrNil]
  /\ ops = [w \in active |-> <<>>]
  /\ obs = [w \in active |-> NoObs]
  /\ calls = 0
  /\ admits = <<>>
  /\ resp = [w \in active |-> NoResp]

InitWorkers == InitCalls /\ run = [k \in Keys |-> NoRun]

\* The service starts on an empty store.
InitState == now = 1 /\ data = EmptyStore /\ InitWorkers

InitCommon == cfg \in Configs /\ faults = 0 /\ InitState

\* One worker: the calls are made one after the other, on the in-memory store.
Init == store = "mock" /\ active = {1} /\ InitCommon

\* --------------------------------------------------------------- actions
\* What a store call can return as its error.
StoreErrs == IF faults < MaxFaults THEN {ErrNil, ErrStore} ELSE {ErrNil}
Faults(e) == IF e = ErrNil THEN faults ELSE faults + 1
Op(name, key, e) == [op |-> name, key |-> key, err |-> e]

\* The call of worker w ends with result res.
Finish(w, res, incremented) ==
  /\ pc' = [pc EXCEPT ![w] = "done"]
  /\ allowed' = [allowed EXCEPT ![w] = res.allowed]
  /\ resetTime' = [resetTime EXCEPT ![w] = res.resetTime]
  /\ err' = [err EXCEPT ![w] = res.err]
  /\ run' = IF ops'[w] = <<>>
              THEN run
              ELSE [run EXCEPT ![ops'[w][1].key] =
                      RunAfter(@, Fresh(info'[w], obs'[w].getAt), incremented, obs'[w], now)]

\* The check of worker w returned res and the call goes on to the increment.
GoOn(w, res) ==
  /\ pc' = [pc EXCEPT ![w] = "incr"]
  /\ allowed' = [allowed EXCEPT ![w] = res.allowed]
  /\ resetTime' = [resetTime EXCEPT ![w] = res.resetTime]
  /\ err' = [err EXCEPT ![w] = res.err]
  /\ run' = run

AfterCheck(w, res) ==
  IF GoesOnToIncrement(res.allowed) THEN GoOn(w, res) ELSE Finish(w, res, FALSE)

\* CheckAndIncrement(ctx, ip, token) up to the return of storage.Get.
Call(w, ip, token) ==
  /\ pc[w] \in {"idle", "done"}
  /\ calls < MaxCalls
  /\ calls' = calls + 1
  /\ reqIP' = [reqIP EXCEPT ![w] = ip]
  /\ reqToken' = [reqToken EXCEPT ![w] = token]
  /\ LET tg == CheckTarget(ip, token) IN
       IF ~tg.enabled
         THEN /\ info' = [info EXCEPT ![w] = NilInfo]
              /\ faults' = faults
              /\ ops' = [ops EXCEPT ![w] = <<>>]
              /\ obs' = [obs EXCEPT ![w] = NoObs]
              /\ AfterCheck(w, CheckDisabled)
         ELSE \E getErr \in StoreErrs :
              LET i == IF getErr = ErrNil THEN StorageGet(data, tg.key, now) ELSE NilInfo
                  c == Check(tg.rl, i, getErr, now)
              IN /\ info' = [info EXCEPT ![w] = i]
                 /\ faults' = Faults(getErr)
                 /\ ops' = [ops EXCEPT ![w] = <<Op("Get", tg.key, getErr)>>]
                 /\ obs' = [obs EXCEPT ![w] = [NoObs EXCEPT !.getAt = now,
                                                            !.fault = (getErr # ErrNil),
                                                            !.checkReset = c.resetTime]]
                 /\ IF c.next = "clear"
                      THEN /\ pc' = [pc EXCEPT ![w] = "clear"]
                           /\ UNCHANGED <<allowed, resetTime, err, run>>
                      ELSE AfterCheck(w, c)
  /\ UNCHANGED <<cfg, store, now, data, active>>

\* RateLimiter.Check: storage.Clear of the expired record, and Check's return.
ClearStep(w) ==
  /\ pc[w] = "clear"
  /\ LET tg == CheckTarget(reqIP[w], reqToken[w]) IN
     \E clearErr \in StoreErrs :
       /\ data' = IF clearErr = ErrNil THEN StorageClear(data, tg.key) ELSE data
       /\ faults' = Faults(clearErr)
       /\ ops' = [ops EXCEPT ![w] = Append(@, Op("Clear", tg.key, clearErr))]
       /\ obs' = [obs EXCEPT ![w].fault = @ \/ (clearErr # ErrNil),
                             ![w].checkReset = CheckCleared(tg.rl, clearErr, now).resetTime]
       /\ info' = info
       /\ AfterCheck(w, CheckCleared(tg.rl, clearErr, now))
  /\ UNCHANGED <<cfg, store, now, active, reqIP, reqToken, calls>>

\* IncrementToken / IncrementIP and the return of CheckAndIncrement.
IncrementStep(w) ==
  /\ pc[w] = "incr"
  /\ LET ig == IncrementTarget(reqIP[w], reqToken[w]) IN
       IF ~ig.enabled
         THEN /\ UNCHANGED <<data, ops, obs, info, faults>>
              /\ Finish(w, ResultAfterIncrement(resetTime[w], ErrNil), FALSE)
         ELSE \E incErr \in StoreErrs :
              LET r == Increment(ig.rl, data, ig.key, now)
                  e == IF incErr = ErrNil THEN r.err ELSE incErr
              IN
              /\ data' = IF incErr = ErrNil THEN r.data ELSE data
              /\ faults' = Faults(incErr)
              /\ ops' = [ops EXCEPT ![w] = Append(@, Op("Increment", ig.key, e))]
              /\ obs' = [obs EXCEPT ![w] =
                           IF e = ErrNil
                             THEN [@ EXCEPT !.incAt = now, !.incCount = r.count,
                                            !.incReset = r.resetTime]
                             ELSE [@ EXCEPT !.fault = TRUE]]
              /\ info' = info
              /\ Finish(w, ResultAfterIncrement(resetTime[w], e), e = ErrNil)
  /\ UNCHANGED <<cfg, store, now, active, reqIP, reqToken, calls>>

\* The longest window of the configuration.
LongestWindow ==
  IF \E c \in DOMAIN cfg.TokenLimits : cfg.TokenLimits[c].TTL > cfg.BlockingTime
    THEN CHOOSE t \in {cfg.TokenLimits[c].TTL : c \in DOMAIN cfg.TokenLimits} :
           \A c \in DOMAIN cfg.TokenLimits : cfg.TokenLimits[c].TTL <= t
    ELSE cfg.BlockingTime

\* The clock runs from 1 to MaxTime: long enough for the longest window that
\* starts at 1 to expire.
MaxTime == LongestWindow + 2

\* The clock advances.  It starts with the first call and stops after the last
\* one: the time before and after them changes nothing.
Tick ==
  /\ now < MaxTime
  /\ calls > 0
  /\ calls < MaxCalls \/ \E w \in active : pc[w] \in {"clear", "incr"}
  /\ now' = now + 1
  /\ UNCHANGED <<cfg, store, data, active, pc, reqIP, reqToken, info, allowed, resetTime,
                 err, ops, obs, run, calls, faults>>

Next ==
  \/ \E w \in active, rq \in Requests : Call(w, rq[1], rq[2]) /\ UNCHANGED outside
  \/ \E w \in active : ClearStep(w) /\ UNCHANGED outside
  \/ \E w \in active : IncrementStep(w) /\ UNCHANGED outside
  \/ Tick /\ UNCHANGED outside

Spec == Init /\ [][Next]_vars

\* ------------------------------------------------------------ middleware
\* time.Time.Format(time.RFC3339): the time to the second, the fraction dropped.
FormatRFC3339(t) == [set |-> TRUE, seconds |-> t \div TicksPerSecond]

StatusOK == 200
StatusTooManyRequests == 429
StatusInternalServerError == 500

\* Mutant of Response: the next handler is invoked whatever the decision.
Response_AlwaysServes(isAllowed, reset, e) ==
  IF ~isAllowed
    THEN [status |-> StatusTooManyRequests, served |-> 1, reset |-> FormatRFC3339(reset)]
  ELSE IF e # ErrNil
    THEN [status |-> StatusInternalServerError, served |-> 1, reset |-> NoHeader]
  ELSE [status |-> StatusOK, served |-> 1, reset |-> FormatRFC3339(reset)]

\* RateLimitMiddleware after CheckAndIncrement returned (isAllowed, reset, e).
\* The next handler answers with 200.
Response(isAllowed, reset, e) ==
  IF ~isAllowed
    THEN [status |-> StatusTooManyRequests, served |-> 0, reset |-> FormatRFC3339(reset)]
  ELSE IF e # ErrNil
    THEN [status |-> StatusInternalServerError, served |-> 0, reset |-> NoHeader]
  ELSE [status |-> StatusOK, served |-> 1, reset |-> FormatRFC3339(reset)]

\* The requests: from one address, without and with a credential.
MwRequests == {<<"x", NoToken>>, <<"x", "y">>}

MwConfigs == {c \in Configs : DOMAIN c.TokenLimits = {}}

MwInit ==
  /\ store = "mock"
  /\ active = {1}
  /\ cfg \in MwConfigs
  /\ faults = 0
  /\ InitState

\* The handler takes a request and calls CheckAndIncrement.
Handle(w, ip, token) ==
  /\ pc[w] = "idle"
  /\ Call(w, ip, token)
  /\ resp' = [resp EXCEPT ![w] = NoResp]
  /\ admits' = admits

\* The handler writes the response and returns.
Respond(w) ==
  /\ pc[w] = "done"
  /\ pc' = [pc EXCEPT ![w] = "idle"]
  /\ resp' = [resp EXCEPT ![w] = Response(allowed[w], resetTime[w], err[w])]
  /\ UNCHANGED <<cfg, store, now, data, active, reqIP, reqToken, info, allowed,
                 resetTime, err, ops, obs, run, calls, faults, admits>>

MwNext ==
  \/ \E w \in active, rq \in MwRequests : Handle(w, rq[1], rq[2])
  \/ \E w \in active : ClearStep(w) /\ UNCHANGED outside
  \/ \E w \in active : IncrementStep(w) /\ UNCHANGED outside
  \/ \E w \in active : Respond(w)
  \/ Tick /\ UNCHANGED outside

MwSpec == MwInit /\ [][MwNext]_vars

\* ------------------------------------------- any configuration that loads
\* LoadConfig and parseTokenLimits take every integer the environment holds
\* (strconv.Atoi), and NewService and NewRateLimiter return no error.
LoadableInts == (0 - 1)..1
LoadablePolicies == [MaxRequests : LoadableInts, TTL : LoadableInts]
LoadableConfigs ==
  [MaxRequestsPerSecond : LoadableInts, BlockingTime : LoadableInts,
   TokenLimits : {[t \in {} |-> [MaxRequests |-> 1, TTL |-> 1]]}
                   \cup {[t \in {"x"} |-> p] : p \in LoadablePolicies},
   EnableIPRateLimiter : {TRUE}, EnableTokenRateLimiter : {TRUE}]

\* NewService builds a service from every configuration.
NewServiceAccepts(c) == TRUE

CfgInit ==
  /\ store = "mock"
  /\ active = {1}
  /\ cfg \in {c \in LoadableConfigs : NewServiceAccepts(c)}
  /\ faults = MaxFaults
  /\ InitState

CfgSpec == CfgInit /\ [][Next]_vars

\* -------------------------------------------- either store, one address
\* The service on the in-memory store or on the Redis store, with requests
\* from one address and store calls that do not fail.  The policies go one
\* beyond MaxN and MaxTTL: two increments inside a window, and a check after
\* them, need maxRequests = 3 and a window of 3 ticks.
StoreRequests == {<<"x", NoToken>>}

StoreConfigs ==
  [MaxRequestsPerSecond : 1..(MaxN + 1), BlockingTime : 1..(MaxTTL + 1),
   TokenLimits : {[t \in {} |-> [MaxRequests |-> 1, TTL |-> 1]]},
   EnableIPRateLimiter : {TRUE}, EnableTokenRateLimiter : {FALSE}]

StoreInit ==
  /\ store \in {"mock", "redis"}
  /\ active = {1}
  /\ cfg \in StoreConfigs
  /\ faults = MaxFaults
  /\ InitState

StoreNext ==
  \/ \E w \in active, rq \in StoreRequests : Call(w, rq[1], rq[2]) /\ UNCHANGED outside
  \/ \E w \in active : ClearStep(w) /\ UNCHANGED outside
  \/ \E w \in active : IncrementStep(w) /\ UNCHANGED outside
  \/ Tick /\ UNCHANGED outside

StoreSpec == StoreInit /\ [][StoreNext]_vars

\* ------------------------------------------------- two addresses, one worker
\* Requests without a credential from two addresses.
AddrRequests == {<<"x", NoToken>>, <<"y", NoToken>>}

AddrConfigs ==
  {c \in Configs : c.EnableIPRateLimiter /\ DOMAIN c.TokenLimits = {}}

AddrInit ==
  /\ store = "mock"
  /\ active = {1}
  /\ cfg \in AddrConfigs
  /\ faults = 0
  /\ InitState

AddrNext ==
  \/ \E w \in active, rq \in AddrRequests : Call(w, rq[1], rq[2]) /\ UNCHANGED outside
  \/ \E w \in active : ClearStep(w) /\ UNCHANGED outside
  \/ \E w \in active : IncrementStep(w) /\ UNCHANGED outside
  \/ Tick /\ UNCHANGED outside

AddrSpec == AddrInit /\ [][AddrNext]_vars

\* ------------------------------------------------ one address, several workers
\* MaxProcs workers serve requests from one address concurrently; a step is
\* one store call of one worker.  The store calls themselves are atomic and
\* do not fail.  The store is empty, or holds the record of a request of an
\* earlier window, which has expired.
ConcRequests == {<<"x", NoToken>>}

ConcConfigs ==
  {c \in Configs : c.EnableIPRateLimiter /\ ~c.EnableTokenRateLimiter
                     /\ DOMAIN c.TokenLimits = {}}

ConcInit ==
  /\ store = "mock"
  /\ active = 1..MaxProcs
  /\ cfg \in ConcConfigs
  /\ faults = MaxFaults
  /\ now = 2
  /\ data \in {EmptyStore, Put(EmptyStore, KeyIP("x"), RateLimitInfo(1, 1))}
  /\ InitWorkers

\* A call that the store admitted has returned.
Admitted(w) == pc'[w] = "done" /\ allowed'[w] /\ ops'[w] # <<>>

\* The admissions are counted for as long as the clock stands still.
Counted(w) ==
  /\ admits' = IF Admitted(w) THEN Append(admits, now) ELSE admits
  /\ resp' = resp

ConcNext ==
  \/ \E w \in active, rq \in ConcRequests : Call(w, rq[1], rq[2]) /\ Counted(w)
  \/ \E w \in active : ClearStep(w) /\ Counted(w)
  \/ \E w \in active : IncrementStep(w) /\ Counted(w)
  \/ Tick /\ admits' = <<>> /\ resp' = resp

ConcSpec == ConcInit /\ [][ConcNext]_vars

\* ------------------------------------- either store, admissions logged
\* The service of StoreSpec, with the clock of every admission kept: a call is
\* admitted at the step in which its Check returns admitted.
Logged(w) ==
  /\ admits' = IF pc[w] # "incr" /\ pc'[w] = "incr" THEN Append(admits, now) ELSE admits
  /\ resp' = resp

WinNext ==
  \/ \E w \in active, rq \in StoreRequests : Call(w, rq[1], rq[2]) /\ Logged(w)
  \/ \E w \in active : ClearStep(w) /\ Logged(w)
  \/ \E w \in active : IncrementStep(w) /\ Logged(w)
  \/ Tick /\ UNCHANGED outside

WinSpec == StoreInit /\ [][WinNext]_vars

\* ------------------------------- Redis store, an address ending in ":info"
\* Requests without a credential from two addresses, one of which is the
\* other followed by ":info" (the address is the text of a request header).
InfoIds == {"x", "x:info"}
InfoRequests == {<<i, NoToken>> : i \in InfoIds}
InfoKeys == {KeyIP(i) : i \in InfoIds}

InfoInit ==
  /\ store = "redis"
  /\ active = {1}
  /\ cfg \in StoreConfigs
  /\ faults = MaxFaults
  /\ now = 1
  /\ data = [k \in InfoKeys \cup {InfoKey(k) : k \in InfoKeys} |-> NoEntry]
  /\ InitCalls
  /\ run = [k \in InfoKeys |-> NoRun]

InfoNext ==
  \/ \E w \in active, rq \in InfoRequests : Call(w, rq[1], rq[2]) /\ UNCHANGED outside
  \/ \E w \in active : ClearStep(w) /\ UNCHANGED outside
  \/ \E w \in active : IncrementStep(w) /\ UNCHANGED outside
  \/ Tick /\ UNCHANGED outside

InfoSpec == InfoInit /\ [][InfoNext]_vars

\* ------------------------------------------- credentials, one worker
\* Requests with a credential, credential limiting enabled: the credential
\* "x" may have an entry in TokenLimits, the credential "y" has none.
CredRequests == {<<"x", "x">>, <<"x", "y">>}

CredConfigs == {c \in Configs : c.EnableIPRateLimiter /\ c.EnableTokenRateLimiter}

CredInit ==
  /\ store = "mock"
  /\ active = {1}
  /\ cfg \in CredConfigs
  /\ faults = 0
  /\ InitState

CredNext ==
  \/ \E w \in active, rq \in CredRequests : Call(w, rq[1], rq[2]) /\ UNCHANGED outside
  \/ \E w \in active : ClearStep(w) /\ UNCHANGED outside
  \/ \E w \in active : IncrementStep(w) /\ UNCHANGED outside
  \/ Tick /\ UNCHANGED outside

CredSpec == CredInit /\ [][CredNext]_vars

\* ================================================================ claims
\* The keys and the policies as the specification names them.
AddrKey(a) == "ip:" \o a
CredKey(c) == "token:" \o c
CredKeys == {CredKey(c) : c \in Ids}
DefaultPolicy == [MaxRequests |-> cfg.MaxRequestsPerSecond, TTL |-> cfg.BlockingTime]
HasOverride(c) == c \in DOMAIN cfg.TokenLimits
PolicyOf(c) == IF HasOverride(c) THEN cfg.TokenLimits[c] ELSE DefaultPolicy

\* Worker w has completed a call that reached the store.
Done(w) == pc[w] = "done"
Reached(w) == Done(w) /\ ops[w] # <<>>
GovKey(w) == ops[w][1].key
OpsNamed(w, name) == {i \in 1..Len(ops[w]) : ops[w][i].op = name}
OpsOn(w, key) == {i \in 1..Len(ops[w]) : ops[w][i].key = key}
\* The record Get returned to the call of w was present and already expired.
SawExpired(w) == ~info[w].nil /\ obs[w].getAt > info[w].ResetTime

\* C1: on a key not governed by an override, in a run of sequential calls that
\* starts with no live record for the key and stays inside the window, with no
\* store fault, the calls up to the N-th (N = maxRequests) are admitted with a
\* nil error, and the (N+1)-th is denied with ErrLimitExceeded and the reset
\* time the first call's Increment persisted.
C1_FirstNThenDenied ==
  \A w \in active :
    (Reached(w) /\ ~HasOverride(reqToken[w]) /\ run[GovKey(w)].valid) =>
      LET r == run[GovKey(w)]
          N == cfg.MaxRequestsPerSecond
      IN /\ r.n <= N => (allowed[w] /\ err[w] = ErrNil)
         /\ r.n = N + 1 => /\ ~allowed[w]
                           /\ err[w] = ErrLimitExceeded
                           /\ resetTime[w] = r.first

\* C1 witness: with maxRequests = 2, the third call of a run has been denied.
C1_Witness ==
  \E w \in active :
    /\ Reached(w) /\ ~HasOverride(reqToken[w])
    /\ cfg.MaxRequestsPerSecond = 2
    /\ run[GovKey(w)].valid /\ run[GovKey(w)].n = 3
    /\ ~allowed[w]

\* C2: when the record Get returns has a reset time strictly before the clock,
\* whatever its count, and no store call fails, the call is admitted with a nil
\* error after a Clear of the key, and the Increment that follows stores and
\* returns count 1 with reset time = clock at the Increment + window.
C2_ExpiredRestarts ==
  \A w \in active :
    (Reached(w) /\ SawExpired(w) /\ ~obs[w].fault) =>
      LET k == GovKey(w)
          W == PolicyOf(reqToken[w]).TTL
      IN /\ allowed[w] /\ err[w] = ErrNil
         /\ Len(ops[w]) = 3
         /\ ops[w][2].op = "Clear" /\ ops[w][2].key = k
         /\ ops[w][3].op = "Increment" /\ ops[w][3].key = k
         /\ obs[w].incCount = 1
         /\ obs[w].incReset = obs[w].incAt + W
         /\ data[k] = RateLimitInfo(1, obs[w].incAt + W)

\* C2 witness: an expired record whose count had reached the limit was seen,
\* and the call was admitted.
C2_Witness ==
  \E w \in active :
    /\ Reached(w) /\ SawExpired(w) /\ ~obs[w].fault
    /\ info[w].Count >= PolicyOf(reqToken[w]).MaxRequests
    /\ allowed[w]

\* The class that governs the call of w is enabled.
ClassEnabled(w) ==
  IF reqToken[w] # NoToken THEN cfg.EnableTokenRateLimiter ELSE cfg.EnableIPRateLimiter
\* The key of that class for the arguments of w.
ClassKey(w) == IF reqToken[w] # NoToken THEN CredKey(reqToken[w]) ELSE AddrKey(reqIP[w])
\* A record admits a request under policy p at clock t.
Admits(rec, p, t) == rec.nil \/ t > rec.ResetTime \/ rec.Count < p.MaxRequests
\* The record is live at clock t and its budget under policy p is used up.
Exhausted(rec, p, t) == ~rec.nil /\ t <= rec.ResetTime /\ rec.Count >= p.MaxRequests

\* C3: a call with a credential, credential limiting enabled, issues no store
\* call on the address key "ip:"+address, admitted or denied; a call without a
\* credential issues no store call on any "token:" key.
C3_OtherClassUntouched ==
  \A w \in active :
    pc[w] # "idle" =>
      /\ (reqToken[w] # NoToken /\ cfg.EnableTokenRateLimiter) =>
            OpsOn(w, AddrKey(reqIP[w])) = {}
      /\ reqToken[w] = NoToken => \A k \in CredKeys : OpsOn(w, k) = {}

\* C3 witness: a call with the credential "x" from the address "x" was denied
\* for the limit, after a store call.
C3_Witness ==
  \E w \in active :
    /\ Reached(w) /\ reqToken[w] = "x" /\ reqIP[w] = "x"
    /\ cfg.EnableTokenRateLimiter
    /\ ~allowed[w] /\ err[w] = ErrLimitExceeded

\* C4: with both classes enabled and no store fault, the admission of a call
\* with a credential is decided by the record read from the credential key
\* alone (no store call touches the address key), and the admission of a call
\* without a credential by the record read from the address key alone (no
\* store call touches a credential key).
C4_OutcomeFromOwnRecord ==
  \A w \in active :
    (Done(w) /\ cfg.EnableIPRateLimiter /\ cfg.EnableTokenRateLimiter /\ ~obs[w].fault) =>
      /\ ops[w] # <<>>
      /\ \A i \in 1..Len(ops[w]) : ops[w][i].key = ClassKey(w)
      /\ ops[w][1].op = "Get"
      /\ allowed[w] = Admits(info[w], PolicyOf(reqToken[w]), obs[w].getAt)
      /\ ~allowed[w] => ~Admits(data[ClassKey(w)], PolicyOf(reqToken[w]), obs[w].getAt)

\* C4 witness: a call with a credential was admitted while the record of its
\* address is live and exhausted.
C4_Witness ==
  \E w \in active :
    /\ Done(w) /\ cfg.EnableIPRateLimiter /\ cfg.EnableTokenRateLimiter
    /\ reqToken[w] # NoToken /\ allowed[w]
    /\ Exhausted(data[AddrKey(reqIP[w])], DefaultPolicy, now)

\* C5: for a credential with an entry in TokenLimits, in a sequential run
\* without store fault inside one window, the calls up to the MaxRequests-th of
\* the entry are admitted and the next one is denied with ErrLimitExceeded, and
\* the reset time the first Increment persists is the clock plus the entry's TTL
\* (as is the reset time Check returns when it finds no record).
C5_OverrideGoverns ==
  \A w \in active :
    (Reached(w) /\ HasOverride(reqToken[w]) /\ run[GovKey(w)].valid) =>
      LET r == run[GovKey(w)]
          p == cfg.TokenLimits[reqToken[w]]
      IN /\ GovKey(w) = CredKey(reqToken[w])
         /\ r.n <= p.MaxRequests => (allowed[w] /\ err[w] = ErrNil)
         /\ r.n = p.MaxRequests + 1 => (~allowed[w] /\ err[w] = ErrLimitExceeded)
         /\ r.n = 1 => /\ r.first = obs[w].incAt + p.TTL
                       /\ data[GovKey(w)] = RateLimitInfo(1, obs[w].incAt + p.TTL)
                       /\ info[w].nil => obs[w].checkReset = obs[w].getAt + p.TTL

\* C5 witness: the override differs from the default policy in both fields, and
\* the call after the last admitted one has been denied.
C5_Witness ==
  \E w \in active :
    /\ Reached(w) /\ HasOverride(reqToken[w])
    /\ cfg.TokenLimits[reqToken[w]].MaxRequests # cfg.MaxRequestsPerSecond
    /\ cfg.TokenLimits[reqToken[w]].TTL # cfg.BlockingTime
    /\ run[GovKey(w)].valid
    /\ run[GovKey(w)].n = cfg.TokenLimits[reqToken[w]].MaxRequests + 1
    /\ ~allowed[w]

\* C6 (as claimed): with credential limiting disabled and address limiting
\* enabled, a call with a credential is evaluated against the address key: its
\* first store call is a Get on "ip:"+address, an admitted call increments
\* that key, and an exhausted address is denied.
C6_FallsThroughToAddress ==
  \A w \in active :
    (Done(w) /\ ~cfg.EnableTokenRateLimiter /\ cfg.EnableIPRateLimiter
       /\ reqToken[w] # NoToken) =>
      /\ ops[w] # <<>>
      /\ ops[w][1].op = "Get" /\ ops[w][1].key = AddrKey(reqIP[w])
      /\ allowed[w] => \E i \in OpsNamed(w, "Increment") : ops[w][i].key = AddrKey(reqIP[w])

\* C7: a call that returns admitted=true under an enabled class has issued
\* exactly one Increment, on the key of that class, which is the key of all
\* its store calls; a call that returns admitted=false has issued none.
C7_OneIncrementIffAdmitted ==
  \A w \in active :
    Done(w) =>
      /\ (allowed[w] /\ ClassEnabled(w)) =>
            /\ Cardinality(OpsNamed(w, "Increment")) = 1
            /\ \A i \in 1..Len(ops[w]) : ops[w][i].key = ClassKey(w)
      /\ ~allowed[w] => OpsNamed(w, "Increment") = {}

\* C7 witness: an admitted call with a credential has issued its Increment.
C7_Witness ==
  \E w \in active :
    /\ Done(w) /\ allowed[w] /\ ClassEnabled(w) /\ reqToken[w] # NoToken
    /\ Cardinality(OpsNamed(w, "Increment")) = 1

\* C8: a call whose Get failed, or whose Clear of an expired record failed,
\* returns admitted=false with the store error and the zero reset time, and
\* has issued no Increment.
C8_CheckErrorSurfaces ==
  \A w \in active :
    (Reached(w) /\ \E i \in 1..Len(ops[w]) :
                     ops[w][i].op \in {"Get", "Clear"} /\ ops[w][i].err # ErrNil) =>
      /\ ~allowed[w]
      /\ err[w] = ErrStore
      /\ resetTime[w] = ZeroTime
      /\ OpsNamed(w, "Increment") = {}

\* C8 witness: the Clear of an expired record has failed.
C8_Witness ==
  \E w \in active :
    /\ Reached(w) /\ Len(ops[w]) = 2
    /\ ops[w][2].op = "Clear" /\ ops[w][2].err = ErrStore

\* C9: a call whose Check admitted and whose Increment failed returns
\* admitted=true with a nil error and the reset time Check returned.
C9_IncrementErrorSwallowed ==
  \A w \in active :
    (Reached(w) /\ \E i \in OpsNamed(w, "Increment") : ops[w][i].err # ErrNil) =>
      /\ allowed[w]
      /\ err[w] = ErrNil
      /\ resetTime[w] = obs[w].checkReset

\* C9 witness: an Increment has failed after Check returned a reset time.
C9_Witness ==
  \E w \in active :
    /\ Reached(w) /\ \E i \in OpsNamed(w, "Increment") : ops[w][i].err = ErrStore
    /\ obs[w].checkReset # ZeroTime

\* C10: a call whose class is disabled issues no store call on a key of that
\* class; and with address limiting disabled, every call without a credential
\* returns (true, zero time, nil).
C10_DisabledClassCostsNothing ==
  \A w \in active :
    (pc[w] # "idle" /\ ~ClassEnabled(w)) =>
      /\ reqToken[w] = NoToken =>
            /\ OpsOn(w, AddrKey(reqIP[w])) = {}
            /\ Done(w) => (allowed[w] /\ resetTime[w] = ZeroTime /\ err[w] = ErrNil)
      /\ reqToken[w] # NoToken => \A k \in CredKeys : OpsOn(w, k) = {}

\* C10 witness: with address limiting disabled, the last of MaxCalls calls, one
\* without a credential, has returned.
C10_Witness ==
  \E w \in active :
    /\ Done(w) /\ ~cfg.EnableIPRateLimiter /\ reqToken[w] = NoToken
    /\ calls = MaxCalls /\ allowed[w]

\* C11: in requests without a credential from two addresses, a step changes
\* the stored record of an address only when it is the Clear or the Increment
\* of a call for that same address; the record a call reads is the record of
\* its own address, and the call's admission is decided by that record alone.
\* So no call for an address a changes the record of an address b or the
\* outcome of a call for b.
C11_AddressesIsolated ==
  [][/\ \A k \in DOMAIN data :
          data'[k] # data[k] =>
            \E w \in active : pc[w] \in {"clear", "incr"} /\ k = AddrKey(reqIP[w])
     /\ \A w \in active :
          (calls' = calls + 1 /\ pc'[w] # "idle" /\ ~obs'[w].fault) =>
             /\ ops'[w][1].key = AddrKey(reqIP'[w])
             /\ info'[w] = data[ops'[w][1].key]
     /\ \A w \in active :
          (pc[w] # "done" /\ pc'[w] = "done" /\ ~obs'[w].fault) =>
             allowed'[w] = Admits(info'[w], DefaultPolicy, obs'[w].getAt)]_vars

\* C11 witness: a call for the address "y" was admitted while the record of
\* the address "x" is live and exhausted.
C11_Witness ==
  \E w \in active :
    /\ Done(w) /\ reqIP[w] = "y" /\ reqToken[w] = NoToken /\ allowed[w]
    /\ Len(ops[w]) = 2
    /\ Exhausted(data[AddrKey("x")], DefaultPolicy, now)
    /\ data[AddrKey("y")].Count = 1

\* C12: for every address a and credential c, a = c included, the key of the
\* address differs from the key of the credential; the store calls of a call
\* with credential c are never on the address key of the literal c, and those
\* of a call from address a without a credential never on the credential key
\* of the literal a.
C12_KeySpacesDisjoint ==
  /\ \A a \in Ids, c \in Ids : KeyIP(a) # KeyToken(c)
  /\ \A w \in active :
       pc[w] # "idle" =>
         \A i \in 1..Len(ops[w]) :
           IF reqToken[w] # NoToken
             THEN ops[w][i].key # KeyIP(reqToken[w])
             ELSE ops[w][i].key # KeyToken(reqIP[w])

\* C12 witness: the address "x" and the credential "x" both have a record, and
\* the two records differ.
C12_Witness ==
  /\ ~data[KeyIP("x")].nil /\ ~data[KeyToken("x")].nil
  /\ data[KeyIP("x")].Count # data[KeyToken("x")].Count

\* C13 (as claimed): with K workers on one key under maxRequests = N, the
\* number of requests admitted while the clock stands still (an interval that
\* lies inside one window), and the count of a live record, never exceed
\* N + (K - 1).
C13_RaceBound ==
  LET N == cfg.MaxRequestsPerSecond
      K == Cardinality(active)
  IN /\ Len(admits) <= N + (K - 1)
     /\ \A k \in DOMAIN data :
          (~data[k].nil /\ now <= data[k].ResetTime) => data[k].Count <= N + (K - 1)

\* C14: a call denied with ErrLimitExceeded returns the reset time of the
\* record it read, which is the reset time of the stored record, and that
\* reset time is not earlier than the clock at the decision.
C14_DenialCarriesRetryHint ==
  \A w \in active :
    (Done(w) /\ err[w] = ErrLimitExceeded) =>
      /\ ~allowed[w]
      /\ ~info[w].nil
      /\ resetTime[w] = info[w].ResetTime
      /\ resetTime[w] = data[GovKey(w)].ResetTime
      /\ resetTime[w] >= obs[w].getAt

\* C14 witness: a call was denied at the last instant of the window, where the
\* reset time equals the clock.
C14_Witness ==
  \E w \in active :
    /\ Done(w) /\ err[w] = ErrLimitExceeded
    /\ resetTime[w] = obs[w].getAt
    /\ now = obs[w].getAt

\* C15 (as claimed): no request is evaluated against a policy with a
\* non-positive maxRequests or window: a service with such a default policy or
\* override is not constructed, so every call that reaches the store is
\* governed by a policy with maxRequests >= 1 and window >= 1.
C15_NonPositivePolicyRejected ==
  \A w \in active :
    (pc[w] # "idle" /\ ops[w] # <<>>) =>
      /\ PolicyOf(reqToken[w]).MaxRequests >= 1
      /\ PolicyOf(reqToken[w]).TTL >= 1

\* The Increment of worker w is the last store call of the step.
Increments(w) ==
  /\ pc[w] = "incr" /\ pc'[w] = "done"
  /\ Len(ops'[w]) = Len(ops[w]) + 1

\* C16: on the in-memory store and on the Redis store, an Increment on a key
\* without a record establishes count 1 and reset time = clock + window, and an
\* Increment made while the record of its key is live (present, reset time not
\* passed) returns the reset time of that record and leaves it stored, with the
\* count one higher: the increments of a window never move its end.
C16_FixedWindow ==
  [][\A w \in active :
       Increments(w) =>
         LET k == ops'[w][Len(ops'[w])].key
             before == StorageGet(data, k, now)
             after == StorageGet(data', k, now)
         IN /\ before.nil =>
                 /\ obs'[w].incCount = 1
                 /\ obs'[w].incReset = now + cfg.BlockingTime
                 /\ after = RateLimitInfo(1, now + cfg.BlockingTime)
            /\ (~before.nil /\ now <= before.ResetTime) =>
                 /\ obs'[w].incReset = before.ResetTime
                 /\ obs'[w].incCount = before.Count + 1
                 /\ after = RateLimitInfo(before.Count + 1, before.ResetTime)]_vars

\* C16 witness: on the Redis store, the second Increment of a window was made
\* later than the first and returned the reset time of the first.
C16_Witness ==
  \E w \in active :
    /\ store = "redis" /\ Done(w) /\ Len(ops[w]) = 2
    /\ obs[w].incCount = 2
    /\ obs[w].incAt <= obs[w].incReset
    /\ obs[w].incReset < obs[w].incAt + cfg.BlockingTime
    /\ StorageGet(data, GovKey(w), now).ResetTime = obs[w].incReset

\* C17 (as claimed): on either store, when the record a Check read was live
\* and the Check admitted, and the reset time of the record has passed when
\* the Increment of the same call runs, the Increment returns and stores
\* count 1 with reset time = clock + window.
C17_ExpiredBeforeIncrementRestarts ==
  \A w \in active :
    (/\ Done(w) /\ allowed[w] /\ Len(ops[w]) = 2
     /\ ~info[w].nil /\ obs[w].getAt <= info[w].ResetTime
     /\ obs[w].incAt > info[w].ResetTime) =>
      /\ obs[w].incCount = 1
      /\ obs[w].incReset = obs[w].incAt + PolicyOf(reqToken[w]).TTL
      /\ StorageGet(data, GovKey(w), obs[w].incAt)
            = RateLimitInfo(1, obs[w].incAt + PolicyOf(reqToken[w]).TTL)

\* The middleware has answered the request of worker w.
Responded(w) == pc[w] = "idle" /\ resp[w].status # 0

\* C18 (as claimed): the middleware answers a request denied with
\* ErrLimitExceeded with 429 and a request whose decision failed with a store
\* error with 500.
C18_StatusTellsFailuresApart ==
  \A w \in active :
    Responded(w) =>
      /\ err[w] = ErrLimitExceeded => resp[w].status = StatusTooManyRequests
      /\ err[w] = ErrStore => resp[w].status = StatusInternalServerError

\* C19: for every answered request, the next handler was invoked once if
\* CheckAndIncrement returned admitted=true with a nil error and not at all
\* otherwise; a denied request was answered with 429 and the header
\* X-RateLimit-Reset holds the returned reset time in RFC 3339 format (to the
\* second: not later than the reset time and less than a second before it).
C19_NextOnlyWhenAdmitted ==
  \A w \in active :
    Responded(w) =>
      /\ resp[w].served = (IF allowed[w] /\ err[w] = ErrNil THEN 1 ELSE 0)
      /\ ~allowed[w] =>
            /\ resp[w].status = StatusTooManyRequests
            /\ resp[w].reset.set
            /\ resp[w].reset = FormatRFC3339(resetTime[w])
            /\ resp[w].reset.seconds * TicksPerSecond <= resetTime[w]
            /\ resetTime[w] < (resp[w].reset.seconds + 1) * TicksPerSecond

\* C19 witness: a request denied for the limit was answered with 429 and a
\* header, the reset time not being a whole second.
C19_Witness ==
  \E w \in active :
    /\ Responded(w) /\ err[w] = ErrLimitExceeded
    /\ resp[w].status = StatusTooManyRequests /\ resp[w].served = 0
    /\ resp[w].reset.seconds * TicksPerSecond < resetTime[w]

\* C20 (as claimed): after a call was denied with ErrLimitExceeded, the next
\* call on the same key is denied as well if it is made less than the blocking
\* time (the window of the governing policy) after that denial.
C20_BlockedForBlockingTime ==
  [][\A w \in active :
       (/\ Done(w) /\ err[w] = ErrLimitExceeded
        /\ calls' = calls + 1
        /\ ops'[w] # <<>> /\ ops'[w][1].key = GovKey(w) /\ ~obs'[w].fault
        /\ now < obs[w].getAt + PolicyOf(reqToken[w]).TTL) =>
         (pc'[w] = "done" /\ ~allowed'[w] /\ err'[w] = ErrLimitExceeded)]_vars

\* C21: for a call with a credential that has no entry in TokenLimits,
\* credential limiting enabled, every store call is on "token:"+credential, and
\* in a sequential run without store fault inside one window the calls up to
\* the MaxRequestsPerSecond-th are admitted, the next one is denied with
\* ErrLimitExceeded, and the window the first Increment persists is the
\* default BlockingTime.
C21_DefaultPolicyForCredential ==
  \A w \in active :
    (Reached(w) /\ reqToken[w] # NoToken /\ ~HasOverride(reqToken[w])
       /\ cfg.EnableTokenRateLimiter) =>
      /\ \A i \in 1..Len(ops[w]) : ops[w][i].key = CredKey(reqToken[w])
      /\ run[CredKey(reqToken[w])].valid =>
            LET r == run[CredKey(reqToken[w])]
            IN /\ r.n <= cfg.MaxRequestsPerSecond => (allowed[w] /\ err[w] = ErrNil)
               /\ r.n = cfg.MaxRequestsPerSecond + 1 =>
                     (~allowed[w] /\ err[w] = ErrLimitExceeded)
               /\ r.n = 1 =>
                     data[CredKey(reqToken[w])]
                       = RateLimitInfo(1, obs[w].incAt + cfg.BlockingTime)

\* C21 witness: another credential has an entry that differs from the default
\* policy in both fields, and the call after the last admitted one of the
\* credential without an entry has been denied.
C21_Witness ==
  \E w \in active :
    /\ Reached(w) /\ reqToken[w] = "y" /\ ~HasOverride("y") /\ HasOverride("x")
    /\ cfg.TokenLimits["x"].MaxRequests # cfg.MaxRequestsPerSecond
    /\ cfg.TokenLimits["x"].TTL # cfg.BlockingTime
    /\ run[CredKey("y")].valid
    /\ run[CredKey("y")].n = cfg.MaxRequestsPerSecond + 1
    /\ ~allowed[w] /\ err[w] = ErrLimitExceeded

\* The store holds an entry under key k at the clock, and the time up to
\* which that entry is good.
Held(k) == IF store = "mock" THEN ~data[k].nil ELSE Alive(data[k], now)
GoodUntil(k) == IF store = "mock" THEN data[k].ResetTime ELSE data[k].exp

ChecksLive(w) ==
  /\ calls' = calls + 1 /\ ops'[w] # <<>>
  /\ ~info'[w].nil /\ now <= info'[w].ResetTime

\* C23: a Check that reads a live record issues a Get and nothing else and
\* leaves the store as it was, whether it admits or denies: the record a Get
\* returns after the Check is the record the Check read.  Its result is
\* decided by that record alone (admitted iff count < maxRequests, reset time
\* = the record's), so a Check made at any later clock at which the store
\* still holds the record and it is live returns the same result.
C23_CheckLeavesStore ==
  [][\A w \in active :
       ChecksLive(w) =>
         LET k == ops'[w][1].key
             rl == CheckTarget(reqIP'[w], reqToken'[w]).rl
             c == Check(rl, info'[w], ErrNil, now)
         IN /\ data' = data
            /\ ops'[w] = <<Op("Get", k, ErrNil)>>
            /\ StorageGet(data', k, now) = info'[w]
            /\ c.allowed = (info'[w].Count < rl.maxReqs)
            /\ c.resetTime = info'[w].ResetTime
            /\ obs'[w].checkReset = c.resetTime
            /\ pc'[w] = (IF c.allowed THEN "incr" ELSE "done")
            /\ \A t \in now..info'[w].ResetTime :
                 LET later == StorageGet(data', k, t)
                     again == Check(rl, later, ErrNil, t)
                 IN ~later.nil =>
                      /\ later = info'[w]
                      /\ again.next = "return" /\ again.allowed = c.allowed
                      /\ again.resetTime = c.resetTime /\ again.err = c.err]_vars

\* C23 witness: on the Redis store a call was denied on a live record after
\* one Get, the clock has moved since, and the record is as the Check read it.
C23_Witness ==
  \E w \in active :
    /\ store = "redis" /\ Done(w) /\ err[w] = ErrLimitExceeded
    /\ Len(ops[w]) = 1 /\ ops[w][1].op = "Get"
    /\ now > obs[w].getAt /\ now <= info[w].ResetTime
    /\ StorageGet(data, GovKey(w), now) = info[w]

\* C24: a record in the store has a count of at least 1; while the reset time
\* of a key's record stays the same (no reset in between) its count does not
\* decrease; and the Increments on a key return 1, 2, 3, ... in order: 1 when
\* the store holds no record of the key, and one more than the stored count
\* when it holds a live one.
C24_CountsMonotone ==
  [][\A k \in Keys :
       LET before == StorageGet(data, k, now)
           after == StorageGet(data', k, now')
       IN /\ ~after.nil => after.Count >= 1
          /\ (~before.nil /\ ~after.nil /\ after.ResetTime = before.ResetTime) =>
                after.Count >= before.Count
          /\ \A w \in active :
               (Increments(w) /\ ops'[w][1].key = k) =>
                  /\ obs'[w].incCount = after.Count
                  /\ before.nil => obs'[w].incCount = 1
                  /\ (~before.nil /\ now <= before.ResetTime) =>
                        obs'[w].incCount = before.Count + 1]_vars

\* C24 witness: the third Increment of a run has returned 3 and the record
\* holds the count 3.
C24_Witness ==
  \E w \in active :
    /\ Reached(w) /\ allowed[w] /\ calls = 3
    /\ obs[w].incCount = 3
    /\ StorageGet(data, GovKey(w), now).Count = 3

\* C25: an Increment on a live record whose count has already reached
\* maxRequests succeeds: it stores and returns the count plus one, with the
\* record's reset time, and the call returns admitted.
C25_IncrementIgnoresLimit ==
  [][\A w \in active :
       LET k == ops'[w][1].key
           rl == IncrementTarget(reqIP[w], reqToken[w]).rl
           before == StorageGet(data, k, now)
       IN (/\ Increments(w)
           /\ ~before.nil /\ now <= before.ResetTime /\ before.Count >= rl.maxReqs) =>
            /\ ops'[w][Len(ops'[w])] = Op("Increment", k, ErrNil)
            /\ obs'[w].incCount = before.Count + 1
            /\ StorageGet(data', k, now) = RateLimitInfo(before.Count + 1, before.ResetTime)
            /\ allowed'[w] /\ err'[w] = ErrNil]_vars

\* C25 witness: a call has returned admitted after its Increment took the
\* record beyond maxRequests.
C25_Witness ==
  \E w \in active :
    /\ Reached(w) /\ allowed[w] /\ err[w] = ErrNil
    /\ obs[w].incCount > cfg.MaxRequestsPerSecond
    /\ data[GovKey(w)].Count = obs[w].incCount
    /\ now <= data[GovKey(w)].ResetTime

\* The number of calls admitted at a clock in a..b.
AdmittedIn(a, b) == Cardinality({i \in 1..Len(admits) : a <= admits[i] /\ admits[i] <= b})

\* C26: in sequential calls on one key under maxRequests = N and window W, at
\* most 2N calls are admitted in any interval of length W, and at most N
\* between the creation of a record (its reset time minus W) and its reset
\* time.
C26_BurstBound ==
  LET N == cfg.MaxRequestsPerSecond
      W == cfg.BlockingTime
      rec == StorageGet(data, KeyIP("x"), now)
  IN /\ \A a \in 0..now : AdmittedIn(a, a + W) <= 2 * N
     /\ ~rec.nil => AdmittedIn(rec.ResetTime - W, rec.ResetTime) <= N

\* C26 witness: with maxRequests = 1, two calls were admitted less than a
\* window apart, one at the end of a window and one at the start of the next,
\* and a third call has been made.
C26_Witness ==
  /\ cfg.MaxRequestsPerSecond = 1
  /\ calls = 3
  /\ \E a \in 0..now : AdmittedIn(a, a + cfg.BlockingTime) = 2

\* The step is the Check of a call of worker w whose Get succeeded.
Checks(w) == calls' = calls + 1 /\ ops'[w] # <<>> /\ ~obs'[w].fault

\* C27: Check goes on to clear a record exactly when the clock is strictly
\* after its reset time; at clock = reset time the record is live, and with
\* count >= maxRequests the call is denied with ErrLimitExceeded and that
\* reset time.  When Get finds no record, Check admits with reset time =
\* clock + window whatever maxRequests is, and the store is as it was.
C27_StrictExpiry ==
  [][\A w \in active :
       Checks(w) =>
         LET rl == CheckTarget(reqIP'[w], reqToken'[w]).rl
             i == info'[w]
         IN /\ data' = data
            /\ Len(ops'[w]) = 1 /\ ops'[w][1].op = "Get"
            /\ i.nil =>
                 /\ pc'[w] = "incr" /\ allowed'[w] /\ err'[w] = ErrNil
                 /\ resetTime'[w] = now + rl.blockTime
            /\ ~i.nil => ((pc'[w] = "clear") <=> (now > i.ResetTime))
            /\ (~i.nil /\ now = i.ResetTime /\ i.Count >= rl.maxReqs) =>
                 /\ pc'[w] = "done" /\ ~allowed'[w]
                 /\ err'[w] = ErrLimitExceeded /\ resetTime'[w] = i.ResetTime]_vars

\* C27 witness: a call found its record at the limit at the very clock of the
\* record's reset time and was denied, and the record is still in the store.
C27_Witness ==
  \E w \in active :
    /\ Done(w) /\ Len(ops[w]) = 1 /\ ~info[w].nil
    /\ obs[w].getAt = info[w].ResetTime
    /\ info[w].Count >= PolicyOf(reqToken[w]).MaxRequests
    /\ ~allowed[w] /\ data[GovKey(w)] = info[w]

\* The names of the store calls of worker w, in order.
OpNames(w) == [i \in 1..Len(ops[w]) |-> ops[w][i].op]

\* C28: the store calls of a call are a Get, then at most one Clear, then at
\* most one Increment, all on one key; a Clear is issued only on a record read
\* as expired, an Increment only after Check returned admitted; and a call
\* that has made its last store call has returned.
C28_StoreCallOrder ==
  \A w \in active :
    (pc[w] # "idle" /\ ops[w] # <<>>) =>
      /\ OpNames(w) \in {<<"Get">>, <<"Get", "Clear">>, <<"Get", "Increment">>,
                          <<"Get", "Clear", "Increment">>}
      /\ \A i \in 1..Len(ops[w]) : ops[w][i].key = ops[w][1].key
      /\ OpsNamed(w, "Clear") # {} => (ops[w][1].err = ErrNil /\ SawExpired(w))
      /\ OpsNamed(w, "Increment") # {} =>
            /\ allowed[w] /\ pc[w] = "done"
            /\ \A i \in 1..(Len(ops[w]) - 1) : ops[w][i].err = ErrNil
      /\ pc[w] = "clear" => OpNames(w) = <<"Get">>
      /\ pc[w] = "incr" => (allowed[w] /\ OpsNamed(w, "Increment") = {})

\* C28 witness: a call has returned after a Get, a Clear and an Increment on
\* the key of its credential.
C28_Witness ==
  \E w \in active :
    /\ Done(w) /\ reqToken[w] # NoToken
    /\ OpNames(w) = <<"Get", "Clear", "Increment">>
    /\ ops[w][3].key = CredKey(reqToken[w])

\* C29: a call never returns admitted together with an error: if the error is
\* not nil the call was denied, and an admitted call returns a nil error.  So
\* no request is answered from the middleware's server-error branch.
C29_NoAdmissionWithError ==
  \A w \in active :
    /\ Done(w) => (err[w] # ErrNil => ~allowed[w])
    /\ Responded(w) =>
         /\ err[w] # ErrNil => ~allowed[w]
         /\ resp[w].status # StatusInternalServerError
         /\ resp[w].status \in {StatusOK, StatusTooManyRequests}

\* C29 witness: the Increment of an admitted call failed with a store error,
\* and the request was answered with 200 by the next handler.
C29_Witness ==
  \E w \in active :
    /\ Responded(w) /\ allowed[w] /\ err[w] = ErrNil
    /\ \E i \in OpsNamed(w, "Increment") : ops[w][i].err = ErrStore
    /\ resp[w].status = StatusOK /\ resp[w].served = 1

\* C30 (as claimed): with several workers on one key, the Clear a Check issues
\* after it read an expired record removes no live record: if the store holds
\* a record of the key whose reset time has not passed when the Clear runs,
\* the record, with the increments of the admitted calls it counts, is still
\* there afterwards.
C30_ClearSparesLiveRecord ==
  [][\A w \in active :
       (pc[w] = "clear" /\ pc'[w] # "clear") =>
         LET k == ops[w][1].key
             before == StorageGet(data, k, now)
         IN (~before.nil /\ now <= before.ResetTime) =>
              StorageGet(data', k, now) = before]_vars

\* C31 (as claimed): on the Redis store, a store call made for one address
\* changes nothing of what the store holds for another address, also when the
\* other address is the first followed by ":info": the record a Get returns
\* for the other address is the same before and after the call.
C31_RedisEntriesDisjoint ==
  [][\A w \in active : \A b \in InfoIds :
       (pc[w] \in {"clear", "incr"} /\ reqIP[w] # b) =>
          StorageGet(data', KeyIP(b), now) = StorageGet(data, KeyIP(b), now)]_vars

\* C32: a call that returns denied has changed nothing in the store and has
\* issued no Increment, and a limit denial returns the reset time of the
\* record as it is still stored; and when the call before was denied for the
\* limit, a call on the same key made after the reset time that denial
\* returned is not denied: it finds no record, or an expired one which it
\* clears, and is admitted.
C32_DenialsDoNotProlong ==
  [][\A w \in active :
       /\ (pc[w] # "done" \/ calls' = calls + 1) /\ pc'[w] = "done" /\ ~allowed'[w] =>
            /\ data' = data
            /\ \A i \in 1..Len(ops'[w]) : ops'[w][i].op # "Increment"
            /\ err'[w] = ErrLimitExceeded =>
                 /\ resetTime'[w] = info'[w].ResetTime
                 /\ StorageGet(data', ops'[w][1].key, now) = info'[w]
       /\ (/\ Done(w) /\ err[w] = ErrLimitExceeded
           /\ calls' = calls + 1 /\ ops'[w] # <<>> /\ ~obs'[w].fault
           /\ ops'[w][1].key = GovKey(w)
           /\ now > resetTime[w]) =>
            /\ pc'[w] \in {"clear", "incr"}
            /\ pc'[w] = "incr" => (allowed'[w] /\ info'[w].nil)
       /\ (pc[w] = "clear" /\ pc'[w] # "clear" /\ ~obs'[w].fault) =>
            (pc'[w] = "incr" /\ allowed'[w])]_vars

\* C32 witness: with maxRequests = 1, the third call has been admitted on the
\* expired record that the first call created: the second call was denied and
\* left that record as it was.
C32_Witness ==
  \E w \in active :
    /\ cfg.MaxRequestsPerSecond = 1 /\ calls = 3
    /\ Done(w) /\ allowed[w] /\ SawExpired(w)
    /\ info[w] = RateLimitInfo(1, 1 + cfg.BlockingTime)

\* The limiter one would build once for a credential from its policy.
LimiterOf(c) == NewRateLimiter(PolicyOf(c).MaxRequests, PolicyOf(c).TTL)

\* C33: no step changes the configuration or its override map; in a call with
\* a credential the Increment is on the key of the Get, "token:"+credential,
\* and the limiters CheckToken and IncrementToken build for the call are both
\* the limiter of the credential's policy (the override if there is one, else
\* the default), as one built once per credential would be: the reset time
\* Check returns for an absent record and the reset time the Increment
\* establishes for it are each the clock plus the window of that one policy.
C33_OnePolicyPerCall ==
  [][/\ cfg' = cfg
     /\ \A w \in active :
          (Increments(w) /\ reqToken[w] # NoToken) =>
             LET c == reqToken[w]
                 k == ops'[w][1].key
                 last == ops'[w][Len(ops'[w])]
             IN /\ k = CredKey(c) /\ last.key = k
                /\ CheckTarget(reqIP[w], c).rl = LimiterOf(c)
                /\ IncrementTarget(reqIP[w], c).rl = LimiterOf(c)
                /\ (info[w].nil /\ Len(ops[w]) = 1) =>
                      obs[w].checkReset = obs[w].getAt + PolicyOf(c).TTL
                /\ (last.err = ErrNil /\ data[k].nil) =>
                      /\ obs'[w].incReset = now + PolicyOf(c).TTL
                      /\ data'[k] = RateLimitInfo(1, now + PolicyOf(c).TTL)]_vars

\* C33 witness: the credential "x" has an override whose window differs from
\* the default, its second call in a run has been admitted, and the record
\* holds the count 2 under the reset time the override gave the first.
C33_Witness ==
  \E w \in active :
    /\ Reached(w) /\ reqToken[w] = "x" /\ HasOverride("x")
    /\ cfg.TokenLimits["x"].TTL # cfg.BlockingTime
    /\ cfg.TokenLimits["x"].MaxRequests # cfg.MaxRequestsPerSecond
    /\ run[CredKey("x")].valid /\ run[CredKey("x")].n = 2 /\ allowed[w]
    /\ data[CredKey("x")] = RateLimitInfo(2, run[CredKey("x")].first)

====
